---- MODULE Spec2Model ----
(***************************************************************************)
(* State-machine model of finaldraft.py: the load / process / save /       *)
(* analyse pipeline of main(), the daily job registered with the schedule  *)
(* library, and the one-second polling loop.                               *)
(*                                                                         *)
(* Time is counted in poll ticks (one tick = the one second of             *)
(* time.sleep(1)); a day is DayLen ticks long and the "09:00" of the job   *)
(* is tick AtTime of each day.                                             *)
(*                                                                         *)
(* pandas and schedule are libraries: their operations are modelled at the *)
(* lines of finaldraft.py that call them, by their behaviour in current    *)
(* releases (pandas >= 1.3, schedule >= 1.0).                              *)
(***************************************************************************)
EXTENDS Integers, Sequences, FiniteSets, TLC

VARIABLES
    pc,         \* position of main(): load, process, save, analyze, register, loop, crashed, query, queried
    file_in,    \* contents of insurance.csv
    df,         \* the DataFrame object main() holds
    out_file,   \* contents of processed_insurance.csv
    log,        \* lines of analysis_log.txt, in order
    now,        \* wall clock, in ticks
    jobs,       \* schedule's job list: a set of [next_run]
    failed,     \* the function whose exception ended the process, or "none"
    calls,      \* history: every function invocation, with whether it returned
    reports,    \* history: the four summaries each automated_analysis computed
    polled,     \* history: the clock values at which run_pending() was called
    fired,      \* history: the clock values at which the job's callback was invoked
    regAt,      \* history: the clock value at which the job was registered
    logAtCall,  \* history: Len(log) when the latest stage of main() or the latest callback began
    loaded      \* history: the DataFrame as load_data returned it

vars == <<pc, file_in, df, out_file, log, now, jobs, failed, calls, reports,
          polled, fired, regAt, logAtCall, loaded>>

----------------------------------------------------------------------------
(* Bounds *)

MaxRows == 2
MaxLen == 4
DayLen == 4
MaxDays == 2
MaxDur == 1

(* "09:00", as a tick of the day *)
AtTime == 2

MaxTime == MaxDays * DayLen

----------------------------------------------------------------------------
(* Sequences and numbers *)

Range(s) == {s[i] : i \in DOMAIN s}

Front(s) == SubSeq(s, 1, Len(s) - 1)

Last(s) == s[Len(s)]

Min(S) == CHOOSE x \in S : \A y \in S : x <= y

Max(S) == CHOOSE x \in S : \A y \in S : x >= y

SeqsUpTo(S, n) == UNION {[1..k -> S] : k \in 0..n}

----------------------------------------------------------------------------
(* CSV files and DataFrames                                                *)
(* A file is [exists, cols, rows]; a cell of a numeric column is [k, v]:   *)
(* in a file k is "num" (digits, value v), "text" (not a number) or        *)
(* "empty"; in a DataFrame k is the cell's Python type: "int", "float",    *)
(* "nan" (the float NaN) or "str" (v >= 0 the digits, v < 0 other text).   *)
(* A cell of a label column is a string; "" in a file is the empty field   *)
(* and NaN is the missing value of a DataFrame.                            *)

Columns == {"age", "sex", "region", "charges", "smoker"}

NaN == "NaN"

Num(n) == [k |-> "num", v |-> n]

Text == [k |-> "text", v |-> 0]

Empty == [k |-> "empty", v |-> 0]

NoFile == [exists |-> FALSE, cols |-> {}, rows |-> <<>>]

NoTable == [exists |-> FALSE, cols |-> {}, rows |-> <<>>]

(* A file that was opened for writing and never filled. *)
TruncatedFile == [exists |-> TRUE, cols |-> {}, rows |-> <<>>]

column(d, c) == [i \in 1..Len(d.rows) |-> d.rows[i][c]]

(* pd.read_csv infers each column's type from all of its cells: digits     *)
(* only give int64, digits and empty fields give float64 with NaN, any     *)
(* other text gives an object column that keeps the fields as strings.     *)
parse_numeric(col, i) ==
    LET kinds == {col[j].k : j \in DOMAIN col}
        c == col[i]
    IN  IF "text" \in kinds
            THEN IF c.k = "num" THEN [k |-> "str", v |-> c.v]
                 ELSE IF c.k = "text" THEN [k |-> "str", v |-> -1]
                 ELSE [k |-> "nan", v |-> 0]
        ELSE IF "empty" \in kinds
            THEN IF c.k = "num" THEN [k |-> "float", v |-> c.v]
                 ELSE [k |-> "nan", v |-> 0]
        ELSE [k |-> "int", v |-> c.v]

parse_label(s) == IF s = "" THEN NaN ELSE s

read_csv(f) ==
    [exists |-> TRUE,
     cols |-> f.cols,
     rows |-> [i \in 1..Len(f.rows) |->
                 [age |-> parse_numeric(column(f, "age"), i),
                  sex |-> parse_label(f.rows[i].sex),
                  region |-> parse_label(f.rows[i].region),
                  charges |-> parse_numeric(column(f, "charges"), i),
                  smoker |-> parse_label(f.rows[i].smoker)]]]

(* Series.astype(float): float() of every cell; NaN stays NaN.             *)
float_ok(c) == ~(c.k = "str" /\ c.v < 0)

to_float(c) == IF c.k = "nan" THEN c ELSE [k |-> "float", v |-> c.v]

(* Series.astype(int): int() of every cell; NaN cannot be cast.            *)
int_ok(c) == ~(c.k = "str" /\ c.v < 0) /\ c.k # "nan"

to_int(c) == [k |-> "int", v |-> c.v]

set_column(d, c, col) ==
    [d EXCEPT !.rows = [i \in 1..Len(d.rows) |-> [d.rows[i] EXCEPT ![c] = col[i]]]]

(* DataFrame.to_csv(path, index=False): the header and every row. *)
to_csv(d) == [exists |-> TRUE, cols |-> d.cols, rows |-> d.rows]

----------------------------------------------------------------------------
(* Log lines *)

Info(m) == [level |-> "INFO", msg |-> m]

Error(m) == [level |-> "ERROR", msg |-> m]

SummaryLines ==
    <<Info("Average Patient Age"), Info("Sex Distribution"),
      Info("Average Yearly Charges"), Info("Unique Regions")>>

----------------------------------------------------------------------------
(* load_data, process_data, save_data *)

load_data(f) ==
    IF f.exists /\ f.cols # {}
        THEN [raised |-> FALSE, ret |-> read_csv(f),
              logs |-> <<Info("Data loaded successfully.")>>]
        ELSE [raised |-> TRUE, ret |-> NoTable,
              logs |-> <<Error("Error loading data")>>]

(* Variant: the age column is converted first. *)
process_data_swapped(d) ==
    LET age == column(d, "age")
        ageOk == "age" \in d.cols /\ \A i \in DOMAIN age : int_ok(age[i])
        d1 == IF ageOk
                  THEN set_column(d, "age", [i \in DOMAIN age |-> to_int(age[i])])
                  ELSE d
        charges == column(d1, "charges")
        chargesOk == ageOk /\ "charges" \in d.cols
                     /\ \A i \in DOMAIN charges : float_ok(charges[i])
        d2 == IF chargesOk
                  THEN set_column(d1, "charges",
                                  [i \in DOMAIN charges |-> to_float(charges[i])])
                  ELSE d1
    IN  IF chargesOk
            THEN [raised |-> FALSE, df |-> d2,
                  logs |-> <<Info("Data processed successfully.")>>]
            ELSE [raised |-> TRUE, df |-> d2,
                  logs |-> <<Error("Error processing data")>>]

(* process_data assigns the converted charges column into df, then the     *)
(* converted age column; df is the caller's object, so what was assigned   *)
(* before an exception stays assigned.                                     *)
process_data(d) ==
    LET charges == column(d, "charges")
        chargesOk == "charges" \in d.cols
                     /\ \A i \in DOMAIN charges : float_ok(charges[i])
        d1 == IF chargesOk
                  THEN set_column(d, "charges",
                                  [i \in DOMAIN charges |-> to_float(charges[i])])
                  ELSE d
        age == column(d1, "age")
        ageOk == chargesOk /\ "age" \in d.cols
                 /\ \A i \in DOMAIN age : int_ok(age[i])
        d2 == IF ageOk
                  THEN set_column(d1, "age", [i \in DOMAIN age |-> to_int(age[i])])
                  ELSE d1
    IN  IF ageOk
            THEN [raised |-> FALSE, df |-> d2,
                  logs |-> <<Info("Data processed successfully.")>>]
            ELSE [raised |-> TRUE, df |-> d2,
                  logs |-> <<Error("Error processing data")>>]

(* Variant: a failed write is not logged. *)
save_data_silent(d, old, io_ok, partial) ==
    IF io_ok
        THEN [raised |-> FALSE, file |-> to_csv(d),
              logs |-> <<Info("Processed data saved")>>]
        ELSE [raised |-> TRUE, file |-> IF partial THEN TruncatedFile ELSE old,
              logs |-> <<>>]

(* io_ok: whether the write succeeds; a failed write leaves the old file   *)
(* or a truncated one (partial).                                           *)
save_data(d, old, io_ok, partial) ==
    IF io_ok
        THEN [raised |-> FALSE, file |-> to_csv(d),
              logs |-> <<Info("Processed data saved")>>]
        ELSE [raised |-> TRUE, file |-> IF partial THEN TruncatedFile ELSE old,
              logs |-> <<Error("Error saving data")>>]

----------------------------------------------------------------------------
(* PatientsInfo: the summaries *)

RECURSIVE Sum(_)
Sum(s) == IF s = <<>> THEN 0 ELSE Sum(Front(s)) + Last(s)

(* round(x, 2) of the non-negative rational a / n, in hundredths (ties to  *)
(* the even hundredth).                                                    *)
round2(a, n) ==
    LET q == (100 * a) \div n
        r == (100 * a) % n
    IN  IF 2 * r < n THEN q
        ELSE IF 2 * r > n THEN q + 1
        ELSE IF q % 2 = 0 THEN q ELSE q + 1

(* Series.mean() skips NaN; the mean of no values is NaN. *)
mean2(col) ==
    LET vals == SelectSeq(col, LAMBDA c : c.k # "nan")
    IN  IF vals = <<>> THEN [nan |-> TRUE, v |-> 0]
        ELSE [nan |-> FALSE,
              v |-> round2(Sum([i \in DOMAIN vals |-> vals[i].v]), Len(vals))]

(* Variant: the values in the order of their last occurrences. *)
RECURSIVE unique_last(_)
unique_last(col) ==
    IF col = <<>> THEN <<>>
    ELSE LET r == unique_last(Front(col))
         IN  Append(SelectSeq(r, LAMBDA x : x # Last(col)), Last(col))

(* Series.unique(): the distinct values, NaN among them, in the order of   *)
(* their first occurrence.                                                 *)
RECURSIVE unique(_)
unique(col) ==
    IF col = <<>> THEN <<>>
    ELSE LET r == unique(Front(col))
         IN  IF Last(col) \in Range(r) THEN r ELSE Append(r, Last(col))

count(col, x) == Cardinality({i \in DOMAIN col : col[i] = x})

(* Stable insertion of a pair after every pair whose count is not smaller. *)
RECURSIVE insert_desc(_, _)
insert_desc(s, p) ==
    IF s = <<>> THEN <<p>>
    ELSE IF Last(s)[2] >= p[2] THEN Append(s, p)
    ELSE Append(insert_desc(Front(s), p), Last(s))

RECURSIVE sort_desc(_)
sort_desc(s) ==
    IF s = <<>> THEN <<>> ELSE insert_desc(sort_desc(Front(s)), Last(s))

(* Variant: the counts are not sorted. *)
value_counts_unsorted(col) ==
    LET keys == unique(SelectSeq(col, LAMBDA x : x # NaN))
    IN  [i \in DOMAIN keys |-> <<keys[i], count(col, keys[i])>>]

(* Series.value_counts(): NaN is dropped (dropna=True), the other values   *)
(* are counted in the order of their first occurrence and then sorted by   *)
(* descending count, ties keeping that order.  to_dict() keeps the order.  *)
value_counts(col) ==
    LET keys == unique(SelectSeq(col, LAMBDA x : x # NaN))
    IN  sort_desc([i \in DOMAIN keys |-> <<keys[i], count(col, keys[i])>>])

analyze_ages(d) == mean2(column(d, "age"))

analyze_sexes(d) == value_counts(column(d, "sex"))

average_charges(d) == mean2(column(d, "charges"))

unique_regions(d) == unique(column(d, "region"))

(* A summary raises KeyError when its column is absent. *)
AnalyzerColumns == {"age", "sex", "charges", "region"}

VisualizerColumns == {"region", "charges", "smoker"}

----------------------------------------------------------------------------
(* visualize_data, automated_analysis *)

(* Variant: the exception is raised again after logging. *)
visualize_data_reraise(d, vfail) ==
    IF vfail \/ ~(VisualizerColumns \subseteq d.cols)
        THEN [raised |-> TRUE, logs |-> <<Error("Error creating visualizations")>>]
        ELSE [raised |-> FALSE, logs |-> <<>>]

(* vfail: whether the display backend raises.  Whatever is raised inside   *)
(* the try block is logged and not raised again.                           *)
visualize_data(d, vfail) ==
    IF vfail \/ ~(VisualizerColumns \subseteq d.cols)
        THEN [raised |-> FALSE, logs |-> <<Error("Error creating visualizations")>>]
        ELSE [raised |-> FALSE, logs |-> <<>>]

SummaryReport(d) ==
    [avg_age |-> analyze_ages(d),
     sex_distribution |-> analyze_sexes(d),
     avg_charges |-> average_charges(d),
     unique_regions |-> unique_regions(d)]

(* The columns the summaries read, in the order automated_analysis calls them. *)
SummaryOrder == <<"age", "sex", "charges", "region">>

(* Variant: each summary line is logged as soon as its summary is computed. *)
automated_analysis_interleaved(d, fault, vfail) ==
    LET firstBad == IF \E i \in 1..4 : SummaryOrder[i] \notin d.cols
                        THEN Min({i \in 1..4 : SummaryOrder[i] \notin d.cols})
                        ELSE 5
        v == visualize_data(d, vfail)
    IN  IF fault \/ firstBad <= 4
            THEN [raised |-> TRUE, by |-> "PatientsInfo",
                  logs |-> SubSeq(SummaryLines, 1, IF fault THEN 0 ELSE firstBad - 1),
                  reports |-> <<>>,
                  calls |-> <<[fn |-> "automated_analysis", ok |-> FALSE]>>]
            ELSE [raised |-> v.raised, by |-> "visualize_data",
                  logs |-> SummaryLines \o v.logs,
                  reports |-> <<SummaryReport(d)>>,
                  calls |-> <<[fn |-> "automated_analysis", ok |-> ~v.raised],
                              [fn |-> "visualize_data", ok |-> ~v.raised]>>]

(* fault: whether a summary raises for a reason other than an absent       *)
(* column.  Nothing in automated_analysis catches.                         *)
automated_analysis(d, fault, vfail) ==
    LET v == visualize_data(d, vfail)
    IN  IF fault \/ ~(AnalyzerColumns \subseteq d.cols)
            THEN [raised |-> TRUE, by |-> "PatientsInfo",
                  logs |-> <<>>,
                  reports |-> <<>>,
                  calls |-> <<[fn |-> "automated_analysis", ok |-> FALSE]>>]
            ELSE [raised |-> v.raised, by |-> "visualize_data",
                  logs |-> SummaryLines \o v.logs,
                  reports |-> <<SummaryReport(d)>>,
                  calls |-> <<[fn |-> "automated_analysis", ok |-> ~v.raised],
                              [fn |-> "visualize_data", ok |-> ~v.raised]>>]

----------------------------------------------------------------------------
(* schedule: every().day.at("09:00").do(...), run_pending() *)

(* Variant: a 09:00 that is the present moment counts. *)
next_at_inclusive(t) ==
    LET today == (t \div DayLen) * DayLen + AtTime
    IN  IF today >= t THEN today ELSE today + DayLen

(* Job._schedule_next_run: the first 09:00 strictly after t. *)
next_at(t) ==
    LET today == (t \div DayLen) * DayLen + AtTime
    IN  IF today > t THEN today ELSE today + DayLen

(* Job.should_run *)
should_run(j, t) == t >= j.next_run

(* Variant: the callback loads and processes insurance.csv again. *)
job_func_reload(d, f, fault, vfail) ==
    LET l == load_data(f)
        p == process_data(l.ret)
    IN  IF l.raised \/ p.raised
            THEN automated_analysis(d, fault, vfail)
            ELSE automated_analysis(p.df, fault, vfail)

(* The callback: lambda: automated_analysis(df), df being main()'s local.  *)
job_func(d, f, fault, vfail) == automated_analysis(d, fault, vfail)

(* Variant: an exception of the callback is caught and the job scheduled again. *)
run_pending_isolated(js, d, f, t, fault, vfail, dur) ==
    LET due == {j \in js : should_run(j, t)}
        r == job_func(d, f, fault, vfail)
    IN  IF due = {}
            THEN [raised |-> FALSE, by |-> "none", ran |-> FALSE, jobs |-> js,
                  now |-> t, logs |-> <<>>, reports |-> <<>>, calls |-> <<>>]
            ELSE [raised |-> FALSE, by |-> r.by, ran |-> TRUE,
                  jobs |-> (js \ due) \cup {[next_run |-> next_at(t + dur)]},
                  now |-> t + dur,
                  logs |-> r.logs, reports |-> r.reports, calls |-> r.calls]

(* run_pending at clock t: every job that should run is run; its callback  *)
(* takes dur ticks (plt.show() may block) and then the job is scheduled     *)
(* again from the clock at that moment.  An exception of the callback       *)
(* leaves run_pending at once.                                              *)
run_pending(js, d, f, t, fault, vfail, dur) ==
    LET due == {j \in js : should_run(j, t)}
        r == job_func(d, f, fault, vfail)
    IN  IF due = {}
            THEN [raised |-> FALSE, by |-> "none", ran |-> FALSE, jobs |-> js,
                  now |-> t, logs |-> <<>>, reports |-> <<>>, calls |-> <<>>]
        ELSE IF r.raised
            THEN [raised |-> TRUE, by |-> r.by, ran |-> TRUE, jobs |-> js,
                  now |-> t, logs |-> r.logs, reports |-> r.reports, calls |-> r.calls]
        ELSE [raised |-> FALSE, by |-> "none", ran |-> TRUE,
              jobs |-> (js \ due) \cup {[next_run |-> next_at(t + dur)]},
              now |-> t + dur,
              logs |-> r.logs, reports |-> r.reports, calls |-> r.calls]

----------------------------------------------------------------------------
(* Input files *)

RowKinds ==
    {[age |-> Num(30), sex |-> "male", region |-> "west",
      charges |-> Num(100), smoker |-> "yes"],
     [age |-> Num(41), sex |-> "female", region |-> "east",
      charges |-> Num(250), smoker |-> "no"],
     [age |-> Text, sex |-> "male", region |-> "west",
      charges |-> Num(100), smoker |-> "yes"],
     [age |-> Num(30), sex |-> "female", region |-> "east",
      charges |-> Text, smoker |-> "no"],
     [age |-> Num(30), sex |-> "", region |-> "west",
      charges |-> Empty, smoker |-> "yes"]}

ColumnSets ==
    {Columns, Columns \ {"sex"}, Columns \ {"smoker"}, Columns \ {"age"}}

(* The fields of a row under the columns the file has. *)
project(row, cols) ==
    [age |-> IF "age" \in cols THEN row.age ELSE Empty,
     sex |-> IF "sex" \in cols THEN row.sex ELSE "",
     region |-> IF "region" \in cols THEN row.region ELSE "",
     charges |-> IF "charges" \in cols THEN row.charges ELSE Empty,
     smoker |-> IF "smoker" \in cols THEN row.smoker ELSE ""]

InputFiles ==
    {NoFile} \cup
    {[exists |-> TRUE, cols |-> c,
      rows |-> [i \in DOMAIN r |-> project(r[i], c)]] :
        c \in ColumnSets, r \in SeqsUpTo(RowKinds, MaxRows)}

(* What insurance.csv may be replaced by while the process runs. *)
LaterFiles ==
    {[exists |-> TRUE, cols |-> Columns,
      rows |-> <<[age |-> Num(41), sex |-> "female", region |-> "east",
                  charges |-> Num(250), smoker |-> "no"]>>]}

(* Files whose sex and region columns take every combination of values. *)
LabelFiles ==
    {[exists |-> TRUE, cols |-> Columns,
      rows |-> [i \in DOMAIN r |->
                  [age |-> Num(30), sex |-> r[i][1], region |-> r[i][2],
                   charges |-> Num(100), smoker |-> "yes"]]] :
        r \in SeqsUpTo({"male", "female", ""} \X {"west", "east", "north", ""}, MaxLen)}

----------------------------------------------------------------------------
(* main() *)

Init ==
    /\ pc = "load"
    /\ file_in \in InputFiles
    /\ df = NoTable
    /\ out_file = NoFile
    /\ log = <<>>
    /\ now \in 0..(DayLen - 1)
    /\ jobs = {}
    /\ failed = "none"
    /\ calls = <<>>
    /\ reports = <<>>
    /\ polled = {}
    /\ fired = {}
    /\ regAt = {}
    /\ logAtCall = 0
    /\ loaded = NoTable

(* df = load_data("insurance.csv") *)
LoadData ==
    /\ pc = "load"
    /\ LET r == load_data(file_in)
       IN  /\ log' = log \o r.logs
           /\ calls' = Append(calls, [fn |-> "load_data", ok |-> ~r.raised])
           /\ df' = IF r.raised THEN df ELSE r.ret
           /\ loaded' = IF r.raised THEN loaded ELSE r.ret
           /\ pc' = IF r.raised THEN "crashed" ELSE "process"
           /\ failed' = IF r.raised THEN "load_data" ELSE failed
    /\ logAtCall' = Len(log)
    /\ UNCHANGED <<file_in, out_file, now, jobs, reports, polled, fired, regAt>>

(* Variant: main() goes on to save_data after a failure. *)
ProcessData_continue ==
    /\ pc = "process"
    /\ LET r == process_data(df)
       IN  /\ log' = log \o r.logs
           /\ calls' = Append(calls, [fn |-> "process_data", ok |-> ~r.raised])
           /\ df' = r.df
           /\ pc' = "save"
           /\ failed' = failed
    /\ logAtCall' = Len(log)
    /\ UNCHANGED <<file_in, out_file, now, jobs, reports, polled, fired, regAt, loaded>>

(* df = process_data(df) *)
ProcessData ==
    /\ pc = "process"
    /\ LET r == process_data(df)
       IN  /\ log' = log \o r.logs
           /\ calls' = Append(calls, [fn |-> "process_data", ok |-> ~r.raised])
           /\ df' = r.df
           /\ pc' = IF r.raised THEN "crashed" ELSE "save"
           /\ failed' = IF r.raised THEN "process_data" ELSE failed
    /\ logAtCall' = Len(log)
    /\ UNCHANGED <<file_in, out_file, now, jobs, reports, polled, fired, regAt, loaded>>

(* save_data(df, "processed_insurance.csv") *)
SaveData ==
    /\ pc = "save"
    /\ \E io_ok \in BOOLEAN, partial \in BOOLEAN :
         LET r == save_data(df, out_file, io_ok, partial)
         IN  /\ (io_ok => ~partial)
             /\ log' = log \o r.logs
             /\ calls' = Append(calls, [fn |-> "save_data", ok |-> ~r.raised])
             /\ out_file' = r.file
             /\ pc' = IF r.raised THEN "crashed" ELSE "analyze"
             /\ failed' = IF r.raised THEN "save_data" ELSE failed
    /\ logAtCall' = Len(log)
    /\ UNCHANGED <<file_in, df, now, jobs, reports, polled, fired, regAt, loaded>>

(* automated_analysis(df), the eager call.  The time startup takes is part *)
(* of the clock value Init chooses.                                        *)
InitialAnalysis ==
    /\ pc = "analyze"
    /\ \E fault \in BOOLEAN, vfail \in BOOLEAN :
         LET r == automated_analysis(df, fault, vfail)
         IN  /\ log' = log \o r.logs
             /\ calls' = calls \o r.calls
             /\ reports' = reports \o r.reports
             /\ now' = now
             /\ pc' = IF r.raised THEN "crashed" ELSE "register"
             /\ failed' = IF r.raised THEN r.by ELSE failed
    /\ logAtCall' = Len(log)
    /\ UNCHANGED <<file_in, df, out_file, jobs, polled, fired, regAt, loaded>>

(* schedule.every().day.at("09:00").do(lambda: automated_analysis(df)) *)
RegisterJob ==
    /\ pc = "register"
    /\ jobs' = jobs \cup {[next_run |-> next_at(now)]}
    /\ regAt' = {now}
    /\ pc' = "loop"
    /\ UNCHANGED <<file_in, df, out_file, log, now, failed, calls, reports,
                   polled, fired, logAtCall, loaded>>

(* One turn of the loop: schedule.run_pending(), then time.sleep(1). *)
Poll ==
    /\ pc = "loop"
    /\ now < MaxTime
    /\ \E fault \in BOOLEAN, vfail \in BOOLEAN, dur \in 0..MaxDur :
         LET r == run_pending(jobs, df, file_in, now, fault, vfail, dur)
         IN  /\ (~r.ran => (~fault /\ ~vfail /\ dur = 0))
             /\ (r.raised => dur = 0)
             /\ log' = log \o r.logs
             /\ calls' = calls \o r.calls
             /\ reports' = reports \o r.reports
             /\ jobs' = r.jobs
             /\ polled' = polled \cup {now}
             /\ fired' = IF r.ran THEN fired \cup {now} ELSE fired
             /\ logAtCall' = IF r.ran THEN Len(log) ELSE logAtCall
             /\ now' = IF r.raised THEN r.now ELSE r.now + 1
             /\ pc' = IF r.raised THEN "crashed" ELSE "loop"
             /\ failed' = IF r.raised THEN r.by ELSE failed
    /\ UNCHANGED <<file_in, df, out_file, regAt, loaded>>

(* Somebody else replaces insurance.csv. *)
ModifyInput ==
    /\ pc \in {"process", "save", "analyze", "register", "loop"}
    /\ file_in' \in LaterFiles \ {file_in}
    /\ UNCHANGED <<pc, df, out_file, log, now, jobs, failed, calls, reports,
                   polled, fired, regAt, logAtCall, loaded>>

Next ==
    \/ LoadData
    \/ ProcessData
    \/ SaveData
    \/ InitialAnalysis
    \/ RegisterJob
    \/ Poll
    \/ ModifyInput

Spec == Init /\ [][Next]_vars

----------------------------------------------------------------------------
(* The summaries alone, over every table of labels *)

InitSummaries ==
    /\ pc = "query"
    /\ file_in \in LabelFiles
    /\ df = process_data(load_data(file_in).ret).df
    /\ out_file = NoFile
    /\ log = <<>>
    /\ now = 0
    /\ jobs = {}
    /\ failed = "none"
    /\ calls = <<>>
    /\ reports = <<>>
    /\ polled = {}
    /\ fired = {}
    /\ regAt = {}
    /\ logAtCall = 0
    /\ loaded = load_data(file_in).ret

(* The four calls that open automated_analysis. *)
Summarize ==
    /\ pc = "query"
    /\ reports' = <<SummaryReport(df)>>
    /\ pc' = "queried"
    /\ UNCHANGED <<file_in, df, out_file, log, now, jobs, failed, calls,
                   polled, fired, regAt, logAtCall, loaded>>

NextSummaries == Summarize

SpecSummaries == InitSummaries /\ [][NextSummaries]_vars

----------------------------------------------------------------------------
(* Properties of main()'s startup *)

StartupOrder == <<"load_data", "process_data", "save_data", "automated_analysis">>

Stages == {"load_data", "process_data", "save_data"}

CallsOf(fn) == {i \in DOMAIN calls : calls[i].fn = fn}

(* C1: startup runs load_data, process_data, save_data and one             *)
(* automated_analysis in that order, each stage only after the stage       *)
(* before it returned; once load_data, process_data or save_data raises,   *)
(* the process is over and the failing call is the last call ever made; a  *)
(* process_data that failed leaves save_data and automated_analysis        *)
(* uncalled and processed_insurance.csv unwritten.                         *)
C1_StartupOrder ==
    /\ \A i \in DOMAIN calls :
         i <= 4 => /\ calls[i].fn = StartupOrder[i]
                   /\ (i > 1 => calls[i - 1].ok)
    /\ (jobs = {} /\ pc # "loop") => Cardinality(CallsOf("automated_analysis")) <= 1
    /\ pc \in {"register", "loop"} => Cardinality(CallsOf("automated_analysis")) >= 1
    /\ failed \in Stages =>
         /\ pc = "crashed"
         /\ calls # <<>>
         /\ Last(calls) = [fn |-> failed, ok |-> FALSE]
         /\ jobs = {} /\ polled = {} /\ reports = <<>>
    /\ (\E i \in DOMAIN calls : calls[i].fn = "process_data" /\ ~calls[i].ok) =>
         /\ failed = "process_data"
         /\ CallsOf("save_data") = {} /\ CallsOf("automated_analysis") = {}
         /\ out_file = NoFile

(* process_data failed on a text cell of the age column. *)
C1_Witness ==
    /\ pc = "crashed"
    /\ failed = "process_data"
    /\ "age" \in df.cols
    /\ \E i \in DOMAIN df.rows : df.rows[i].age.k = "str" /\ df.rows[i].age.v < 0
    /\ \A i \in DOMAIN df.rows : float_ok(loaded.rows[i].charges)
    /\ out_file = NoFile

----------------------------------------------------------------------------
(* Properties of the daily job *)

Day(t) == t \div DayLen

(* The 09:00 of day d. *)
Trigger(d) == d * DayLen + AtTime

Days == 0..MaxDays

(* run_pending() was called at every tick since the loop began. *)
Steady == \A t \in polled : t = Min(polled) \/ (t - 1) \in polled

PollsFrom(d) == {t \in polled : Day(t) = d /\ t >= Trigger(d)}

FiredOn(d) == {t \in fired : Day(t) = d}

NextOccurrence ==
    (pc = "loop" /\ fired # {}) =>
        \A j \in jobs : j.next_run = Trigger(Day(Max(fired)) + 1)

(* C2, as stated: with the job registered and one run_pending() per tick,  *)
(* on every day the callback fires exactly once, at the first poll tick at *)
(* or after that day's 09:00, and the next occurrence is then the 09:00 of *)
(* the following day.                                                      *)
C2_Original ==
    (regAt # {} /\ Steady) =>
        /\ \A d \in Days :
             FiredOn(d) = IF PollsFrom(d) = {} THEN {} ELSE {Min(PollsFrom(d))}
        /\ NextOccurrence

(* C2, amended: the same on every day whose 09:00 is later than the moment *)
(* of registration; on the day of a registration at or after 09:00 the     *)
(* callback does not fire.                                                 *)
C2_Amended ==
    (regAt # {} /\ Steady) =>
        /\ \A d \in Days : \A r \in regAt :
             FiredOn(d) = IF PollsFrom(d) = {} \/ Trigger(d) <= r
                              THEN {}
                              ELSE {Min(PollsFrom(d))}
        /\ NextOccurrence
        /\ (pc = "loop" /\ fired = {}) =>
             \A j \in jobs : \A r \in regAt :
                 j.next_run = Min({Trigger(d) : d \in {e \in Days : Trigger(e) > r}})

(* Registered one tick before 09:00; fired at 09:00 and at the next 09:00. *)
C2_Witness ==
    /\ Steady
    /\ regAt = {Trigger(0) - 1}
    /\ fired = {Trigger(0), Trigger(1)}
    /\ now = Trigger(1) + 1
    /\ pc = "loop"

VizError == Error("Error creating visualizations")

(* C3: a step in which visualize_data logged a rendering failure leaves no *)
(* exception behind: at startup main() goes on to register the job, in the *)
(* loop the loop goes on with the job scheduled for a later 09:00; and     *)
(* every call that did not return ends the process.                        *)
C3_VisualizerSwallows ==
    [][/\ (log' # log /\ Last(log') = VizError) =>
            /\ failed' = "none"
            /\ Last(calls') = [fn |-> "visualize_data", ok |-> TRUE]
            /\ (pc = "analyze" => pc' = "register")
            /\ (pc = "loop" => /\ pc' = "loop"
                               /\ jobs' # {}
                               /\ \A j \in jobs' : j.next_run >= now')
       /\ (calls' # calls /\ ~Last(calls').ok) => pc' = "crashed"
      ]_vars

(* Rendering failed in the eager run and in a scheduled run, and a later   *)
(* scheduled run fired all the same.                                       *)
C3_Witness ==
    /\ pc = "loop"
    /\ failed = "none"
    /\ Cardinality({i \in DOMAIN log : log[i] = VizError}) >= 2
    /\ Cardinality(fired) >= 2
    /\ Last(log) # VizError

(* C4: after startup only automated_analysis (and its visualize_data) is   *)
(* ever called; df stays what save_data wrote; every run computes the      *)
(* summaries of that df, the same as the eager run, whatever insurance.csv *)
(* holds by then.                                                          *)
C4_SameSnapshot ==
    /\ \A i \in DOMAIN calls :
         i >= 4 => calls[i].fn \in {"automated_analysis", "visualize_data"}
    /\ (Len(calls) >= 3 /\ calls[3].ok) => out_file = to_csv(df)
    /\ \A i \in DOMAIN reports :
         reports[i] = reports[1] /\ reports[i] = SummaryReport(df)

(* Two scheduled runs, and insurance.csv now holds other data. *)
C4_Witness ==
    /\ pc = "loop"
    /\ Cardinality(fired) >= 2
    /\ Len(reports) >= 3
    /\ file_in.exists
    /\ SummaryReport(process_data(load_data(file_in).ret).df) # reports[1]

----------------------------------------------------------------------------
(* Properties of process_data *)

AsFloat(d) ==
    set_column(d, "charges",
               [i \in 1..Len(d.rows) |-> to_float(d.rows[i].charges)])

AsInt(d) ==
    set_column(d, "age", [i \in 1..Len(d.rows) |-> to_int(d.rows[i].age)])

ChargesConvertible(d) ==
    "charges" \in d.cols /\ \A i \in DOMAIN d.rows : float_ok(d.rows[i].charges)

ProcessCalled == CallsOf("process_data") # {}

ProcessReturned == \E i \in CallsOf("process_data") : calls[i].ok

(* C5, as stated: process_data either converts both columns of every row   *)
(* and returns, or fails with the table it was given left as it was.       *)
C5_Original ==
    ProcessCalled =>
        IF ProcessReturned
            THEN df = AsInt(AsFloat(loaded))
            ELSE failed = "process_data" /\ df = loaded

(* C5, amended: process_data either converts both columns of every row and *)
(* returns, or fails; when it fails the age column is as loaded, and the   *)
(* charges column of the table it was given is converted, in every row,    *)
(* exactly when every charges cell is convertible (the failure came from   *)
(* the age column); no column is ever converted in some rows only.         *)
C5_Amended ==
    ProcessCalled =>
        IF ProcessReturned
            THEN df = AsInt(AsFloat(loaded)) /\ failed # "process_data"
            ELSE /\ failed = "process_data"
                 /\ column(df, "age") = column(loaded, "age")
                 /\ df = IF ChargesConvertible(loaded) THEN AsFloat(loaded) ELSE loaded

(* process_data failed in the age column with charges already float. *)
C5_Witness ==
    /\ failed = "process_data"
    /\ df # loaded
    /\ df = AsFloat(loaded)
    /\ \E i \in DOMAIN df.rows : ~int_ok(df.rows[i].age)

----------------------------------------------------------------------------
(* Properties of error handling *)

StageError(fn) ==
    IF fn = "load_data" THEN Error("Error loading data")
    ELSE IF fn = "process_data" THEN Error("Error processing data")
    ELSE Error("Error saving data")

(* C6, as stated: whenever load_data, process_data, save_data or a summary *)
(* of PatientsInfo fails, the failing call appends an ERROR line before    *)
(* its exception leaves it, and the run is over.                           *)
C6_Original ==
    failed \in Stages \cup {"PatientsInfo"} =>
        /\ pc = "crashed"
        /\ Len(log) > logAtCall
        /\ Last(log).level = "ERROR"

(* C6, amended: whenever load_data, process_data or save_data fails, it    *)
(* appends its ERROR line, and nothing else, before its exception leaves   *)
(* it; when a summary of PatientsInfo fails, no line at all is appended;   *)
(* in both cases the run is over, and the failing call is the last call.   *)
C6_Amended ==
    /\ failed \in Stages =>
         /\ pc = "crashed"
         /\ Len(log) = logAtCall + 1
         /\ Last(log) = StageError(failed)
    /\ failed = "PatientsInfo" =>
         /\ pc = "crashed"
         /\ Len(log) = logAtCall
    /\ \A i \in DOMAIN calls :
         ~calls[i].ok => /\ i = Len(calls)
                         /\ failed = IF calls[i].fn = "automated_analysis"
                                         THEN "PatientsInfo" ELSE calls[i].fn

(* save_data failed and logged its error. *)
C6_Witness ==
    /\ failed = "save_data"
    /\ pc = "crashed"
    /\ Last(log) = Error("Error saving data")
    /\ Len(log) = 3

(* C7: a scheduled callback that raises leaves run_pending() and the loop: *)
(* the process is over, and from then on nothing is polled, fired or       *)
(* called.                                                                 *)
C7_ScheduledFailureFatal ==
    [][/\ (pc = "loop" /\ calls' # calls /\ ~Last(calls').ok) =>
            (pc' = "crashed" /\ failed' = "PatientsInfo")
       /\ pc = "crashed" =>
            (pc' = "crashed" /\ fired' = fired /\ polled' = polled
             /\ calls' = calls /\ now' = now)
      ]_vars

(* The first scheduled run raised, a day or more before the horizon. *)
C7_Witness ==
    /\ pc = "crashed"
    /\ failed = "PatientsInfo"
    /\ Cardinality(fired) = 1
    /\ Len(reports) = 1
    /\ now + DayLen <= MaxTime
    /\ AnalyzerColumns \subseteq df.cols

(* C10: the job is registered and the loop entered only after the eager    *)
(* automated_analysis returned; when that call raises in a summary, the    *)
(* process is over with processed_insurance.csv written, no job, no poll,  *)
(* no scheduled run; and a run whose summary raises logs none of the four  *)
(* summary lines and never calls visualize_data.                           *)
C10_EagerFailure ==
    /\ (jobs # {} \/ regAt # {} \/ polled # {} \/ pc = "loop") =>
         /\ Len(calls) >= 5
         /\ calls[4] = [fn |-> "automated_analysis", ok |-> TRUE]
         /\ Len(reports) >= 1
    /\ (failed = "PatientsInfo" /\ regAt = {}) =>
         /\ pc = "crashed"
         /\ out_file = to_csv(df) /\ out_file.exists
         /\ jobs = {} /\ polled = {} /\ fired = {}
         /\ Range(log) \cap Range(SummaryLines) = {}
         /\ CallsOf("visualize_data") = {}
         /\ reports = <<>>
    /\ failed = "PatientsInfo" =>
         /\ Last(calls) = [fn |-> "automated_analysis", ok |-> FALSE]
         /\ Len(log) = logAtCall
         /\ Len(reports) = Cardinality(CallsOf("visualize_data"))

(* The eager run raised KeyError: the table has no sex column. *)
C10_Witness ==
    /\ failed = "PatientsInfo"
    /\ regAt = {}
    /\ "sex" \notin df.cols
    /\ Len(df.rows) > 0
    /\ out_file.exists
    /\ Len(log) = 3

----------------------------------------------------------------------------
(* Properties of the summaries *)

FirstIndex(col, x) == Min({i \in DOMAIN col : col[i] = x})

(* C8: unique_regions holds every value of the region column once, in the  *)
(* order of the values' first occurrences.                                 *)
C8_UniqueRegions ==
    pc = "queried" =>
        LET col == column(df, "region")
            u == reports[1].unique_regions
        IN  /\ Range(u) = Range(col)
            /\ \A i, j \in DOMAIN u :
                 i < j => /\ u[i] # u[j]
                          /\ FirstIndex(col, u[i]) < FirstIndex(col, u[j])

C8_Witness ==
    /\ pc = "queried"
    /\ column(df, "region") = <<"west", "east", "west", "north">>
    /\ reports[1].unique_regions = <<"west", "east", "north">>

SexCounts(keys) ==
    LET col == column(df, "sex")
        m == reports[1].sex_distribution
    IN  /\ {m[i][1] : i \in DOMAIN m} = keys
        /\ \A i, j \in DOMAIN m : i # j => m[i][1] # m[j][1]
        /\ \A i \in DOMAIN m : m[i][2] = count(col, m[i][1])
        /\ \A i, j \in DOMAIN m :
             i < j => \/ m[i][2] > m[j][2]
                      \/ /\ m[i][2] = m[j][2]
                         /\ FirstIndex(col, m[i][1]) < FirstIndex(col, m[j][1])

(* C9, as stated: the keys of analyze_sexes are the distinct values of the *)
(* sex column, each with the number of rows carrying it, the counts adding *)
(* up to the number of rows, in descending count with ties in the order of *)
(* first occurrence.                                                       *)
C9_Original ==
    pc = "queried" =>
        LET m == reports[1].sex_distribution
        IN  /\ SexCounts(Range(column(df, "sex")))
            /\ Sum([i \in DOMAIN m |-> m[i][2]]) = Len(df.rows)

(* C9, amended: the keys are the distinct values of the sex column other   *)
(* than the missing value, and the counts add up to the number of rows     *)
(* whose sex is not missing; the rest as stated.                           *)
C9_Amended ==
    pc = "queried" =>
        LET col == column(df, "sex")
            m == reports[1].sex_distribution
        IN  /\ SexCounts(Range(col) \ {NaN})
            /\ Sum([i \in DOMAIN m |-> m[i][2]])
                 = Cardinality({i \in DOMAIN col : col[i] # NaN})

C9_Witness ==
    /\ pc = "queried"
    /\ column(df, "sex") = <<"male", "female", "male">>
    /\ reports[1].sex_distribution = <<(<<"male", 2>>), (<<"female", 1>>)>>

====
